---- MODULE Spec2Model ----
(***************************************************************************)
(* Model of the Fastify employee service: the in-memory record store       *)
(* (routes/employee/state.js), the route handlers of routes/employee       *)
(* (index.js, the schema-validated handlers), the body schemas and the     *)
(* validation error handler of server.js.                                  *)
(*                                                                         *)
(* JSON values are records tagged by their JavaScript type.  Numbers are   *)
(* kept in tenths (25.5 is 255 tenths) so that decimals stay exact.        *)
(* Strings that the code parses or measures (names, path ids, numeric      *)
(* strings in a body) are sequences of one-character strings; messages     *)
(* are TLA+ strings.                                                       *)
(***************************************************************************)
EXTENDS Integers, Sequences, FiniteSets, TLC

\* Bounds of the model.
MaxEmployees == 3
MaxNextId == 3
MaxClients == 2

(***************************************************************************)
(* JSON values                                                             *)
(***************************************************************************)
Undefined == [t |-> "undefined"]
Null == [t |-> "null"]
Obj == [t |-> "object"]
Bool(b) == [t |-> "boolean", b |-> b]
Str(s) == [t |-> "string", s |-> s]
NumT(tenths) == [t |-> "number", tenths |-> tenths]
Whole(n) == NumT(10 * n)
Dec(n, f) == NumT(10 * n + f)

IsInteger(v) == v.t = "number" /\ v.tenths % 10 = 0
IntOf(v) == v.tenths \div 10

(***************************************************************************)
(* Strings as character sequences                                          *)
(***************************************************************************)
Digits == <<"0", "1", "2", "3", "4", "5", "6", "7", "8", "9">>

IsDigit(c) == \E i \in 1..10 : Digits[i] = c
DigitVal(c) == (CHOOSE i \in 1..10 : Digits[i] = c) - 1

\* /^\d+$/.test(s), and the stricter /^[1-9]\d*$/.
NoLeadingZero(s) ==
  Len(s) >= 1 /\ s[1] # "0" /\ \A i \in 1..Len(s) : IsDigit(s[i])

AllDigits(s) == Len(s) >= 1 /\ \A i \in 1..Len(s) : IsDigit(s[i])

\* parseInt(s) / +s for a string of digits.
RECURSIVE DigitsVal(_)
DigitsVal(s) ==
  IF s = <<>> THEN 0
  ELSE 10 * DigitsVal(SubSeq(s, 1, Len(s) - 1)) + DigitVal(s[Len(s)])

\* String(n) for an integer n >= 0.
RECURSIVE NatToStr(_)
NatToStr(n) ==
  IF n < 10 THEN <<Digits[n + 1]>>
  ELSE Append(NatToStr(n \div 10), Digits[(n % 10) + 1])

\* "" + x for a number x given in tenths.
NumToStr(tenths) ==
  LET a == IF tenths < 0 THEN 0 - tenths ELSE tenths
      whole == NatToStr(a \div 10)
      frac == IF a % 10 = 0 THEN <<>> ELSE <<".", Digits[(a % 10) + 1]>>
  IN  (IF tenths < 0 THEN <<"-">> ELSE <<>>) \o whole \o frac

\* Does the string denote a number (s == +s)?  The strings of the model are
\* an optional sign, digits and at most one decimal after a point.
IsNumericStr(s) ==
  LET u == IF s # <<>> /\ s[1] = "-" THEN Tail(s) ELSE s
  IN  \/ AllDigits(u)
      \/ /\ Len(u) >= 3
         /\ u[Len(u) - 1] = "."
         /\ IsDigit(u[Len(u)])
         /\ AllDigits(SubSeq(u, 1, Len(u) - 2))

\* +s in tenths, for a numeric string.
StrToTenths(s) ==
  LET neg == s # <<>> /\ s[1] = "-"
      u == IF neg THEN Tail(s) ELSE s
      a == IF AllDigits(u) THEN 10 * DigitsVal(u)
           ELSE 10 * DigitsVal(SubSeq(u, 1, Len(u) - 2)) + DigitVal(u[Len(u)])
  IN  IF neg THEN 0 - a ELSE a

(***************************************************************************)
(* Body schemas and their validation                                       *)
(*                                                                         *)
(* A schema is its required list and its properties in declaration order.  *)
(* The validator is the one Fastify builds from the options of server.js:  *)
(* only allErrors is set there, so Fastify's other defaults stay in force  *)
(* (types are coerced in place, additional properties are removed          *)
(* silently).  With allErrors every violated rule is reported, `required`  *)
(* before `properties`, the properties in declaration order, and within a  *)
(* property the type first, then maximum, minimum, multipleOf, minLength.  *)
(***************************************************************************)
\* Variants of the schema: name without minLength, age up to 94 only, the
\* properties declared with id last, and id without multipleOf.
schemaNameUnchecked ==
  [required |-> <<"name", "age">>,
   properties |->
     << [key |-> "id", type |-> "number", minimum |-> 1, multipleOf |-> 1],
        [key |-> "name", type |-> "string"],
        [key |-> "age", type |-> "integer", minimum |-> 5, maximum |-> 95] >>]

schemaAgeBelow95 ==
  [required |-> <<"name", "age">>,
   properties |->
     << [key |-> "id", type |-> "number", minimum |-> 1, multipleOf |-> 1],
        [key |-> "name", type |-> "string", minLength |-> 1],
        [key |-> "age", type |-> "integer", minimum |-> 5, maximum |-> 94] >>]

schemaIdLast ==
  [required |-> <<"name", "age">>,
   properties |->
     << [key |-> "name", type |-> "string", minLength |-> 1],
        [key |-> "age", type |-> "integer", minimum |-> 5, maximum |-> 95],
        [key |-> "id", type |-> "number", minimum |-> 1, multipleOf |-> 1] >>]

schemaIdNotWhole ==
  [required |-> <<"name", "age">>,
   properties |->
     << [key |-> "id", type |-> "number", minimum |-> 1],
        [key |-> "name", type |-> "string", minLength |-> 1],
        [key |-> "age", type |-> "integer", minimum |-> 5, maximum |-> 95] >>]

createEmployeeSchema ==
  [required |-> <<"name", "age">>,
   properties |->
     << [key |-> "id", type |-> "number", minimum |-> 1, multipleOf |-> 1],
        [key |-> "name", type |-> "string", minLength |-> 1],
        [key |-> "age", type |-> "integer", minimum |-> 5, maximum |-> 95] >>]

\* Does the value have the schema type, as it stands?
TypeOk(type, v) ==
  CASE type = "number" -> v.t = "number"
    [] type = "integer" -> IsInteger(v)
    [] type = "string" -> v.t = "string"
    [] OTHER -> FALSE

\* The value after type coercion, or Undefined when it cannot be coerced.
Coerce(type, v) ==
  IF TypeOk(type, v) THEN v
  ELSE IF type = "string" THEN
         (CASE v.t = "number" -> Str(NumToStr(v.tenths))
            [] v.t = "boolean" ->
                 Str(IF v.b THEN <<"t", "r", "u", "e">>
                     ELSE <<"f", "a", "l", "s", "e">>)
            [] v.t = "null" -> Str(<<>>)
            [] OTHER -> Undefined)
  ELSE \* number or integer
         (CASE v.t = "boolean" -> Whole(IF v.b THEN 1 ELSE 0)
            [] v.t = "null" -> Whole(0)
            [] v.t = "string" ->
                 IF /\ v.s # <<>>
                    /\ IsNumericStr(v.s)
                    /\ (type = "integer" => StrToTenths(v.s) % 10 = 0)
                 THEN NumT(StrToTenths(v.s))
                 ELSE Undefined
            [] OTHER -> Undefined)

ValidationError(keyword, path, params) ==
  [keyword |-> keyword, instancePath |-> path, params |-> params]

\* The errors of one present property, in the order the validator finds them.
PropertyErrors(p, v) ==
  LET c == Coerce(p.type, v)
      has(k) == k \in DOMAIN p
  IN  IF c = Undefined
      THEN << ValidationError("type", <<p.key>>, [type |-> p.type]) >>
      ELSE (IF c.t = "number" /\ has("maximum") /\ c.tenths > 10 * p.maximum
            THEN << ValidationError("maximum", <<p.key>>, [limit |-> p.maximum]) >>
            ELSE <<>>)
        \o (IF c.t = "number" /\ has("minimum") /\ c.tenths < 10 * p.minimum
            THEN << ValidationError("minimum", <<p.key>>, [limit |-> p.minimum]) >>
            ELSE <<>>)
        \o (IF c.t = "number" /\ has("multipleOf")
               /\ c.tenths % (10 * p.multipleOf) # 0
            THEN << ValidationError("multipleOf", <<p.key>>,
                                    [multipleOf |-> p.multipleOf]) >>
            ELSE <<>>)
        \o (IF c.t = "string" /\ has("minLength") /\ Len(c.s) < p.minLength
            THEN << ValidationError("minLength", <<p.key>>, [limit |-> p.minLength]) >>
            ELSE <<>>)

RECURSIVE RequiredErrors(_, _)
RequiredErrors(required, body) ==
  IF required = <<>> THEN <<>>
  ELSE (IF body[Head(required)] = Undefined
        THEN << ValidationError("required", <<>>,
                                [missingProperty |-> Head(required)]) >>
        ELSE <<>>)
       \o RequiredErrors(Tail(required), body)

RECURSIVE PropertiesErrors(_, _)
PropertiesErrors(properties, body) ==
  IF properties = <<>> THEN <<>>
  ELSE (IF body[Head(properties).key] = Undefined THEN <<>>
        ELSE PropertyErrors(Head(properties), body[Head(properties).key]))
       \o PropertiesErrors(Tail(properties), body)

\* error.validation of a request body: all errors, in order.
Validate(schema, body) ==
  RequiredErrors(schema.required, body) \o PropertiesErrors(schema.properties, body)

\* request.body as the handler sees it after a successful validation.
RECURSIVE CoerceBody(_, _)
CoerceBody(properties, body) ==
  IF properties = <<>> THEN body
  ELSE LET p == Head(properties)
           rest == CoerceBody(Tail(properties), body)
       IN  IF body[p.key] = Undefined THEN rest
           ELSE [rest EXCEPT ![p.key] = Coerce(p.type, body[p.key])]

(***************************************************************************)
(* Responses and the error handler of server.js                            *)
(***************************************************************************)
Reply(status, body) == [status |-> status, body |-> body]
FailureAsError(message) == [error |-> message]

Failure(message) == [success |-> FALSE, message |-> message]
Success(message, data) == [success |-> TRUE, message |-> message, data |-> data]

\* instancePath.replace('/', ''): the path without its first slash. A path
\* is kept as the sequence of its segments.
RECURSIVE PathField(_)
PathField(path) ==
  IF path = <<>> THEN ""
  ELSE IF Len(path) = 1 THEN path[1]
  ELSE path[1] \o "/" \o PathField(Tail(path))

\* `${params[k]}`: the text of a parameter, "undefined" when it is absent.
\* limit and multipleOf are numbers, the other parameters are strings.
ParamText(params, k) ==
  IF k \notin DOMAIN params THEN "undefined"
  ELSE IF k \in {"limit", "multipleOf"} THEN ToString(params[k])
  ELSE params[k]

\* instancePath.replace('/', '') || params.missingProperty || 'data'
FieldOf(firstError) ==
  IF PathField(firstError.instancePath) # ""
  THEN PathField(firstError.instancePath)
  ELSE IF /\ "missingProperty" \in DOMAIN firstError.params
          /\ firstError.params.missingProperty # ""
       THEN firstError.params.missingProperty
       ELSE "data"

\* The message chosen for the first validation error; the variant leaves
\* multipleOf out of the unified age message.
ValidationMessageAgeStep(firstError) ==
  LET field == FieldOf(firstError)
      keyword == firstError.keyword
      params == firstError.params
  IN  IF field = "age" /\ keyword \in {"minimum", "maximum", "type"}
      THEN "Age must be between 5 and 95 years"
      ELSE CASE keyword = "minimum" ->
                  IF field = "id"
                  THEN "ID must be at least " \o ParamText(params, "limit")
                  ELSE field \o " must be at least " \o ParamText(params, "limit")
             [] keyword = "maximum" ->
                  field \o " must be at most " \o ParamText(params, "limit")
             [] keyword = "type" -> field \o " must be a " \o ParamText(params, "type")
             [] keyword = "required" ->
                  ParamText(params, "missingProperty") \o " is required"
             [] keyword = "minLength" -> field \o " cannot be empty"
             [] keyword = "multipleOf" -> field \o " must be a whole number"
             [] OTHER -> "Invalid " \o field

ValidationMessage(firstError) ==
  LET field == FieldOf(firstError)
      keyword == firstError.keyword
      params == firstError.params
  IN  IF field = "age" /\ keyword \in {"minimum", "maximum", "type", "multipleOf"}
      THEN "Age must be between 5 and 95 years"
      ELSE CASE keyword = "minimum" ->
                  IF field = "id"
                  THEN "ID must be at least " \o ParamText(params, "limit")
                  ELSE field \o " must be at least " \o ParamText(params, "limit")
             [] keyword = "maximum" ->
                  field \o " must be at most " \o ParamText(params, "limit")
             [] keyword = "type" -> field \o " must be a " \o ParamText(params, "type")
             [] keyword = "required" ->
                  ParamText(params, "missingProperty") \o " is required"
             [] keyword = "minLength" -> field \o " cannot be empty"
             [] keyword = "multipleOf" -> field \o " must be a whole number"
             [] OTHER -> "Invalid " \o field

\* if (error.validation): the error carries a validation list.
HasValidation(error) == "validation" \in DOMAIN error

\* setErrorHandler callback: an error is a record that carries a validation
\* list or does not. The variant takes an empty list for no list.
ErrorHandlerEmptyAs500(error) ==
  IF HasValidation(error) /\ Len(error.validation) > 0
  THEN Reply(400, Failure(ValidationMessage(error.validation[1])))
  ELSE Reply(500, Failure("Internal server error"))

ErrorHandler(error) ==
  IF HasValidation(error)
  THEN Reply(400, Failure(IF Len(error.validation) > 0
                          THEN ValidationMessage(error.validation[1])
                          ELSE "Validation failed"))
  ELSE Reply(500, Failure("Internal server error"))

(***************************************************************************)
(* The record store (state.js) and the requests                            *)
(***************************************************************************)
VARIABLES
  employees,   \* state.js `employees`: the records, in insertion order
  nextId,      \* state.js `nextId`: the auto-ID counter
  req,         \* the last request served
  resp,        \* its response
  issued,      \* history: the ids handed out by getNextId since the last reset
  inflight,    \* per client: the request it has sent and how far it has got
  server       \* server.js: how far the process has got, and what its last
               \* step wrote to the logger, the console and process.exit

vars == <<employees, nextId, req, resp, issued, inflight, server>>

NoBody == [id |-> Undefined, name |-> Undefined, age |-> Undefined]
Body(id, name, age) == [id |-> id, name |-> name, age |-> age]
Request(op, pid, body) == [op |-> op, pid |-> pid, body |-> body]
Employee(id, name, age) == [id |-> id, name |-> name, age |-> age]

FindLastIndex(emps, employeeId) ==
  IF \E i \in 1..Len(emps) : emps[i].id = employeeId
  THEN CHOOSE i \in 1..Len(emps) :
         /\ emps[i].id = employeeId
         /\ \A j \in (i + 1)..Len(emps) : emps[j].id # employeeId
  ELSE 0

\* employees.findIndex(emp => emp.id === employeeId), 0 for -1.
FindIndex(emps, employeeId) ==
  IF \E i \in 1..Len(emps) : emps[i].id = employeeId
  THEN CHOOSE i \in 1..Len(emps) :
         /\ emps[i].id = employeeId
         /\ \A j \in 1..(i - 1) : emps[j].id # employeeId
  ELSE 0

\* employees.splice(index, 1)
SpliceToEnd(emps, index) == SubSeq(emps, 1, index - 1)

Splice(emps, index) ==
  SubSeq(emps, 1, index - 1) \o SubSeq(emps, index + 1, Len(emps))

\* parseInt(id) of a path id that passed the digits test.
ParseInt(pid) == Whole(DigitsVal(pid))

NotFoundAs400 == Reply(400, Failure("Employee not found"))

InvalidIdFormat == Reply(400, Failure("Invalid ID format. ID must be a number."))
NotFound == Reply(404, Failure("Employee not found"))

(***************************************************************************)
(* The route handlers, as functions of the store and the request          *)
(***************************************************************************)
\* The routes of the server: the employee plugin under its prefix, and
\* nothing else. A request for any other route gets the framework's answer.
Routes ==
  {<<"GET", "/employees">>, <<"GET", "/employees/:id">>,
   <<"POST", "/employees">>, <<"PUT", "/employees/:id">>,
   <<"DELETE", "/employees/:id">>}

RouteNotFound(method, url) ==
  Reply(404, [message |-> "Route " \o method \o ":" \o url \o " not found",
              error |-> "Not Found", statusCode |-> 404])

\* GET /employees
GetAllNewestFirst(emps) ==
  Reply(200, [success |-> TRUE, message |-> "Employees retrieved successfully",
              data |-> [i \in 1..Len(emps) |-> emps[Len(emps) + 1 - i]],
              count |-> Len(emps)])

GetAllReply(emps) ==
  Reply(200, [success |-> TRUE, message |-> "Employees retrieved successfully",
              data |-> emps, count |-> Len(emps)])

\* GET /employees/:id
GetByIdReply(emps, pid) ==
  IF ~AllDigits(pid) THEN InvalidIdFormat
  ELSE LET index == FindIndex(emps, ParseInt(pid))
       IN  IF index = 0 THEN NotFound
           ELSE Reply(200, Success("Employee retrieved successfully", emps[index]))

\* The duplicate check of POST: employees.find(emp => emp.id === employeeId).
IdTakenLastOnly(emps, employeeId) ==
  emps # <<>> /\ emps[Len(emps)].id = employeeId

IdTaken(emps, employeeId) == FindIndex(emps, employeeId) # 0

\* The id of a new record and the counter afterwards: the id of the body, or
\* getNextId() followed by setNextId(employeeId + 1).
AssignIdSkipping(next, id) ==
  IF id # Undefined THEN [employeeId |-> id, nextId |-> next]
  ELSE [employeeId |-> Whole(next), nextId |-> next + 2]

AssignIdNotAdvancing(next, id) ==
  IF id # Undefined THEN [employeeId |-> id, nextId |-> next]
  ELSE [employeeId |-> Whole(next), nextId |-> next]

AssignIdAlwaysAdvancing(next, id) ==
  IF id # Undefined THEN [employeeId |-> id, nextId |-> next + 1]
  ELSE [employeeId |-> Whole(next), nextId |-> next + 1]

AssignId(next, id) ==
  IF id # Undefined THEN [employeeId |-> id, nextId |-> next]
  ELSE [employeeId |-> Whole(next), nextId |-> next + 1]

\* POST /employees with the duplicate check applied to the assigned id as
\* well.
PostResultCheckingAssigned(emps, next, rawBody) ==
  LET errors == Validate(createEmployeeSchema, rawBody)
      body == CoerceBody(createEmployeeSchema.properties, rawBody)
      unchanged(r) == [resp |-> r, employees |-> emps, nextId |-> next,
                       auto |-> FALSE]
  IN  IF errors # <<>> THEN unchanged(ErrorHandler([validation |-> errors]))
      ELSE IF IdTaken(emps, AssignId(next, body.id).employeeId)
      THEN unchanged(Reply(409, Failure("Employee with ID "
                                        \o ToString(IntOf(AssignId(next, body.id).employeeId))
                                        \o " already exists")))
      ELSE LET a == AssignId(next, body.id)
               newEmployee == Employee(a.employeeId, body.name, body.age)
           IN  [resp |-> Reply(201, Success("Employee created successfully",
                                            newEmployee)),
                employees |-> Append(emps, newEmployee),
                nextId |-> a.nextId,
                auto |-> body.id = Undefined]

\* POST /employees: the response and the store it leaves.
PostResult(emps, next, rawBody) ==
  LET errors == Validate(createEmployeeSchema, rawBody)
      body == CoerceBody(createEmployeeSchema.properties, rawBody)
      unchanged(r) == [resp |-> r, employees |-> emps, nextId |-> next,
                       auto |-> FALSE]
  IN  IF errors # <<>> THEN unchanged(ErrorHandler([validation |-> errors]))
      ELSE IF body.id # Undefined /\ IdTaken(emps, body.id)
      THEN unchanged(Reply(409, Failure("Employee with ID "
                                        \o ToString(IntOf(body.id))
                                        \o " already exists")))
      ELSE LET a == AssignId(next, body.id)
               newEmployee == Employee(a.employeeId, body.name, body.age)
           IN  [resp |-> Reply(201, Success("Employee created successfully",
                                            newEmployee)),
                employees |-> Append(emps, newEmployee),
                nextId |-> a.nextId,
                auto |-> body.id = Undefined]

\* { ...employees[employeeIndex], name, age }
MergeWholeBody(old, body) == Employee(body.id, body.name, body.age)

Merge(old, body) == [old EXCEPT !.name = body.name, !.age = body.age]

\* PUT /employees/:id, two variants: the updated record is taken out and
\* pushed at the end; the path id is looked at before the body.
PutResultMovingToEnd(emps, pid, rawBody) ==
  LET errors == Validate(createEmployeeSchema, rawBody)
      body == CoerceBody(createEmployeeSchema.properties, rawBody)
      unchanged(r) == [resp |-> r, employees |-> emps]
  IN  IF errors # <<>> THEN unchanged(ErrorHandler([validation |-> errors]))
      ELSE IF ~AllDigits(pid) THEN unchanged(InvalidIdFormat)
      ELSE LET index == FindIndex(emps, ParseInt(pid))
           IN  IF index = 0 THEN unchanged(NotFound)
               ELSE LET updated == Append(Splice(emps, index), Merge(emps[index], body))
                    IN  [resp |-> Reply(200, Success("Employee updated successfully",
                                                     updated[Len(updated)])),
                         employees |-> updated]

PutResultPathFirst(emps, pid, rawBody) ==
  LET errors == Validate(createEmployeeSchema, rawBody)
      body == CoerceBody(createEmployeeSchema.properties, rawBody)
      unchanged(r) == [resp |-> r, employees |-> emps]
  IN  IF ~AllDigits(pid) THEN unchanged(InvalidIdFormat)
      ELSE IF errors # <<>> THEN unchanged(ErrorHandler([validation |-> errors]))
      ELSE LET index == FindIndex(emps, ParseInt(pid))
           IN  IF index = 0 THEN unchanged(NotFound)
               ELSE LET updated == [emps EXCEPT ![index] = Merge(@, body)]
                    IN  [resp |-> Reply(200, Success("Employee updated successfully",
                                                     updated[index])),
                         employees |-> updated]

\* PUT /employees/:id
PutResult(emps, pid, rawBody) ==
  LET errors == Validate(createEmployeeSchema, rawBody)
      body == CoerceBody(createEmployeeSchema.properties, rawBody)
      unchanged(r) == [resp |-> r, employees |-> emps]
  IN  IF errors # <<>> THEN unchanged(ErrorHandler([validation |-> errors]))
      ELSE IF ~AllDigits(pid) THEN unchanged(InvalidIdFormat)
      ELSE LET index == FindIndex(emps, ParseInt(pid))
           IN  IF index = 0 THEN unchanged(NotFound)
               ELSE LET updated == [emps EXCEPT ![index] = Merge(@, body)]
                    IN  [resp |-> Reply(200, Success("Employee updated successfully",
                                                     updated[index])),
                         employees |-> updated]

\* DELETE /employees/:id; the variant splices at index -1 when no record is
\* found, which takes the last record out.
DeleteResultSplicingMinusOne(emps, pid) ==
  IF ~AllDigits(pid) THEN [resp |-> InvalidIdFormat, employees |-> emps]
  ELSE LET index == FindIndex(emps, ParseInt(pid))
       IN  IF index = 0
           THEN [resp |-> NotFound,
                 employees |-> SubSeq(emps, 1, Len(emps) - 1)]
           ELSE [resp |-> Reply(200, Success("Employee deleted successfully",
                                             emps[index])),
                 employees |-> Splice(emps, index)]

DeleteResult(emps, pid) ==
  IF ~AllDigits(pid) THEN [resp |-> InvalidIdFormat, employees |-> emps]
  ELSE LET index == FindIndex(emps, ParseInt(pid))
       IN  IF index = 0 THEN [resp |-> NotFound, employees |-> emps]
           ELSE [resp |-> Reply(200, Success("Employee deleted successfully",
                                             emps[index])),
                 employees |-> Splice(emps, index)]

(***************************************************************************)
(* Inputs                                                                  *)
(***************************************************************************)
NameA == Str(<<"A">>)
NameB == Str(<<"B">>)

\* The requests of the store's state machine: valid bodies with and without
\* an id, and one body for each way validation can fail.
IdInputs == {Undefined, Whole(1), Whole(2)}
Bodies ==
  {Body(i, NameA, Whole(5)) : i \in IdInputs}
    \cup {Body(i, NameB, Whole(95)) : i \in IdInputs}
    \cup {Body(Undefined, NameA, Whole(4)), Body(Whole(0), NameB, Whole(5))}
PathIds == {<<"1">>, <<"2">>, <<"0", "1">>, <<"a", "b", "c">>}

\* The payloads of the validation rules: every combination of these fields.
AllNames == {Undefined, Null, Obj, Str(<<>>), NameA, Whole(7)}
AllAges ==
  {Undefined, Null, Whole(0), Whole(4), Whole(5), Whole(30), Whole(95), Whole(96),
   Dec(25, 5), Str(<<"3", "0">>), Str(<<"t", "h", "i", "r", "t", "y">>)}
AllIds ==
  {Undefined, Whole(0), Whole(0 - 1), Whole(1), Whole(2), Dec(2, 5), Dec(0, 5),
   Str(<<"2">>), Str(<<"a", "b", "c">>)}
AllBodies == {Body(i, n, a) : i \in AllIds, n \in AllNames, a \in AllAges}
AllPathIds ==
  {<<"1">>, <<"2">>, <<"3">>, <<"0", "1">>, <<"1", ".", "5">>, <<"a", "b", "c">>,
   <<"-", "1">>}

(***************************************************************************)
(* The state machine: one action per request, each a single atomic step    *)
(***************************************************************************)
\* The clients, and a client that has sent nothing.
Clients == 1..MaxClients

Idle ==
  [phase |-> "idle", req |-> Request("none", <<>>, NoBody),
   resp |-> Reply(0, [success |-> TRUE, message |-> ""]),
   order |-> 0, overlapped |-> FALSE]

\* A call of the logger, the console or process.exit.
Effect(call, arg) == [call |-> call, arg |-> arg]

\* The process of server.js. `out` holds the calls of the last step, in
\* order; `exits` the codes given to process.exit.
Server(pc, errorHandler, plugins, listenCalled, exits, out) ==
  [pc |-> pc, errorHandler |-> errorHandler, plugins |-> plugins,
   listenCalled |-> listenCalled, exits |-> exits, out |-> out]

\* After require('fastify')(...), and after a start that went well.
ServerCreated == Server("created", "default", <<>>, FALSE, <<>>, <<>>)

ServerRunning ==
  Server("running", "custom",
         <<[plugin |-> "employeeRoutes", prefix |-> "/employees"]>>,
         TRUE, <<>>, <<>>)

\* What serving a request writes: the error handler logs the error it gets.
Logged(errors) ==
  IF errors # <<>>
  THEN <<Effect("fastify.log.error", [validation |-> errors])>>
  ELSE <<>>

HandlerOutput(request) ==
  IF request.op \in {"post", "put"}
  THEN Logged(Validate(createEmployeeSchema, request.body))
  ELSE <<>>

Init ==
  /\ server = ServerRunning
  /\ inflight = [c \in Clients |-> Idle]
  /\ employees = <<>>
  /\ nextId = 1
  /\ req = Request("none", <<>>, NoBody)
  /\ resp = Reply(0, [success |-> TRUE, message |-> ""])
  /\ issued = <<>>

GetAll ==
  /\ req' = Request("list", <<>>, NoBody)
  /\ resp' = GetAllReply(employees)
  /\ server' = [server EXCEPT !.out = <<>>]
  /\ UNCHANGED <<employees, nextId, issued, inflight>>

GetById(pid) ==
  /\ req' = Request("get", pid, NoBody)
  /\ resp' = GetByIdReply(employees, pid)
  /\ server' = [server EXCEPT !.out = <<>>]
  /\ UNCHANGED <<employees, nextId, issued, inflight>>

Post(body) ==
  LET r == PostResult(employees, nextId, body)
  IN  /\ Len(r.employees) <= MaxEmployees
      /\ r.nextId <= MaxNextId
      /\ req' = Request("post", <<>>, body)
      /\ resp' = r.resp
      /\ employees' = r.employees
      /\ nextId' = r.nextId
      /\ issued' = IF r.auto THEN Append(issued, r.resp.body.data.id) ELSE issued
      /\ server' = [server EXCEPT !.out = HandlerOutput(req')]
      /\ UNCHANGED inflight

Put(pid, body) ==
  LET r == PutResult(employees, pid, body)
  IN  /\ req' = Request("put", pid, body)
      /\ resp' = r.resp
      /\ employees' = r.employees
      /\ server' = [server EXCEPT !.out = HandlerOutput(req')]
      /\ UNCHANGED <<nextId, issued, inflight>>

Delete(pid) ==
  LET r == DeleteResult(employees, pid)
  IN  /\ req' = Request("delete", pid, NoBody)
      /\ resp' = r.resp
      /\ employees' = r.employees
      /\ server' = [server EXCEPT !.out = HandlerOutput(req')]
      /\ UNCHANGED <<nextId, issued, inflight>>

\* A POST whose body is not JSON: the body parser fails before validation
\* and the handler, and the error, which carries no validation list, goes to
\* the error handler.
BadJson ==
  /\ req' = Request("badjson", <<>>, NoBody)
  /\ resp' = ErrorHandler([code |-> "FST_ERR_CTP_INVALID_JSON_BODY"])
  /\ server' = [server EXCEPT
                  !.out = <<Effect("fastify.log.error",
                                   [code |-> "FST_ERR_CTP_INVALID_JSON_BODY"])>>]
  /\ UNCHANGED <<employees, nextId, issued, inflight>>

\* GET /
GetRoot ==
  /\ <<"GET", "/">> \notin Routes
  /\ req' = Request("root", <<>>, NoBody)
  /\ resp' = RouteNotFound("GET", "/")
  /\ server' = [server EXCEPT !.out = <<>>]
  /\ UNCHANGED <<employees, nextId, issued, inflight>>

\* state.reset()
ResetKeepingCounter ==
  /\ employees' = <<>>
  /\ nextId' = nextId
  /\ issued' = <<>>
  /\ UNCHANGED <<inflight, server>>
  /\ req' = Request("reset", <<>>, NoBody)
  /\ resp' = Reply(0, [success |-> TRUE, message |-> ""])

Reset ==
  /\ employees' = <<>>
  /\ nextId' = 1
  /\ issued' = <<>>
  /\ UNCHANGED <<inflight, server>>
  /\ req' = Request("reset", <<>>, NoBody)
  /\ resp' = Reply(0, [success |-> TRUE, message |-> ""])

Next ==
  \/ GetAll
  \/ \E pid \in PathIds : GetById(pid)
  \/ \E body \in Bodies : Post(body)
  \/ \E pid \in PathIds, body \in Bodies : Put(pid, body)
  \/ \E pid \in PathIds : Delete(pid)
  \/ BadJson
  \/ GetRoot
  \/ Reset

Spec == Init /\ [][Next]_vars

(***************************************************************************)
(* Validation: one request with an arbitrary payload or path id, served in *)
(* a store that holds no record, one record or two.                        *)
(***************************************************************************)
Employee1 == Employee(Whole(1), NameA, Whole(5))
Employee2 == Employee(Whole(2), NameB, Whole(95))

InitV ==
  /\ server = ServerRunning
  /\ inflight = [c \in Clients |-> Idle]
  /\ \/ employees = <<>> /\ nextId = 1 /\ issued = <<>>
     \/ employees = <<Employee1>> /\ nextId = 2 /\ issued = <<Whole(1)>>
     \/ employees = <<Employee1, Employee2>> /\ nextId = 2 /\ issued = <<Whole(1)>>
  /\ req = Request("none", <<>>, NoBody)
  /\ resp = Reply(0, [success |-> TRUE, message |-> ""])

PostOnce == req.op = "none" /\ \E body \in AllBodies : Post(body)

PutOnce ==
  req.op = "none" /\ \E pid \in AllPathIds, body \in AllBodies : Put(pid, body)

GetOnce == req.op = "none" /\ \E pid \in AllPathIds : GetById(pid)

DeleteOnce == req.op = "none" /\ \E pid \in AllPathIds : Delete(pid)

NextV == PostOnce \/ PutOnce \/ GetOnce \/ DeleteOnce

SpecV == InitV /\ [][NextV]_vars

(***************************************************************************)
(* Requests in flight: each client sends one request; the requests that    *)
(* have arrived wait until the event loop runs their handler.  A handler   *)
(* is an async function without await, so it runs from its first line to   *)
(* its reply in one turn of the event loop.                                *)
(***************************************************************************)
ClientRequests ==
  {Request("post", <<>>, Body(Undefined, NameA, Whole(30))),
   Request("post", <<>>, Body(Undefined, NameB, Whole(5))),
   Request("put", <<"1">>, Body(Undefined, NameB, Whole(95))),
   Request("delete", <<"1">>, NoBody),
   Request("get", <<"1">>, NoBody),
   Request("list", <<>>, NoBody)}

\* The route handlers as one function of the request and the store.
Handle(request, emps, next) ==
  CASE request.op = "list" ->
         [resp |-> GetAllReply(emps), employees |-> emps, nextId |-> next]
    [] request.op = "get" ->
         [resp |-> GetByIdReply(emps, request.pid), employees |-> emps,
          nextId |-> next]
    [] request.op = "post" ->
         LET r == PostResult(emps, next, request.body)
         IN  [resp |-> r.resp, employees |-> r.employees, nextId |-> r.nextId]
    [] request.op = "put" ->
         LET r == PutResult(emps, request.pid, request.body)
         IN  [resp |-> r.resp, employees |-> r.employees, nextId |-> next]
    [] request.op = "delete" ->
         LET r == DeleteResult(emps, request.pid)
         IN  [resp |-> r.resp, employees |-> r.employees, nextId |-> next]

Store0 == [employees |-> <<Employee1>>, nextId |-> 2]

InitC ==
  /\ server = ServerRunning
  /\ inflight = [c \in Clients |-> Idle]
  /\ employees = Store0.employees
  /\ nextId = Store0.nextId
  /\ issued = <<Whole(1)>>
  /\ req = Request("none", <<>>, NoBody)
  /\ resp = Reply(0, [success |-> TRUE, message |-> ""])

\* A request arrives while others may be waiting.
Receive(c, request) ==
  /\ inflight[c].phase = "idle"
  /\ LET waiting == {d \in Clients : inflight[d].phase = "received"}
     IN  inflight' =
           [d \in Clients |->
              IF d = c
              THEN [Idle EXCEPT !.phase = "received", !.req = request,
                                !.overlapped = waiting # {}]
              ELSE IF d \in waiting
                   THEN [inflight[d] EXCEPT !.overlapped = TRUE]
                   ELSE inflight[d]]
  /\ UNCHANGED <<employees, nextId, req, resp, issued, server>>

\* The event loop runs the handler of a waiting request. The variant loses
\* the handler's write of the counter when other requests were in flight.
ServeLosingWrite(c) ==
  /\ inflight[c].phase = "received"
  /\ LET r == Handle(inflight[c].req, employees, nextId)
         auto == /\ inflight[c].req.op = "post" /\ r.resp.status = 201
                 /\ inflight[c].req.body.id = Undefined
     IN  /\ employees' = r.employees
         /\ nextId' = IF inflight[c].overlapped THEN nextId ELSE r.nextId
         /\ req' = inflight[c].req
         /\ server' = [server EXCEPT !.out = HandlerOutput(inflight[c].req)]
         /\ resp' = r.resp
         /\ issued' = IF auto THEN Append(issued, r.resp.body.data.id) ELSE issued
         /\ inflight' =
              [inflight EXCEPT
                 ![c] = [@ EXCEPT !.phase = "done", !.resp = r.resp,
                                  !.order = 1 + Cardinality(
                                    {d \in Clients : inflight[d].phase = "done"})]]

Serve(c) ==
  /\ inflight[c].phase = "received"
  /\ LET r == Handle(inflight[c].req, employees, nextId)
         auto == /\ inflight[c].req.op = "post" /\ r.resp.status = 201
                 /\ inflight[c].req.body.id = Undefined
     IN  /\ employees' = r.employees
         /\ nextId' = r.nextId
         /\ req' = inflight[c].req
         /\ server' = [server EXCEPT !.out = HandlerOutput(inflight[c].req)]
         /\ resp' = r.resp
         /\ issued' = IF auto THEN Append(issued, r.resp.body.data.id) ELSE issued
         /\ inflight' =
              [inflight EXCEPT
                 ![c] = [@ EXCEPT !.phase = "done", !.resp = r.resp,
                                  !.order = 1 + Cardinality(
                                    {d \in Clients : inflight[d].phase = "done"})]]

NextC ==
  \/ \E c \in Clients, request \in ClientRequests : Receive(c, request)
  \/ \E c \in Clients : Serve(c)

SpecC == InitC /\ [][NextC]_vars

(***************************************************************************)
(* server.js from its first line: the error handler is installed, the      *)
(* employee routes are registered, start() calls listen; once the server   *)
(* runs, errors of requests reach the error handler.                       *)
(***************************************************************************)
InitS ==
  /\ server = ServerCreated
  /\ inflight = [c \in Clients |-> Idle]
  /\ employees = <<>>
  /\ nextId = 1
  /\ issued = <<>>
  /\ req = Request("none", <<>>, NoBody)
  /\ resp = Reply(0, [success |-> TRUE, message |-> ""])

\* try { fastify.setErrorHandler(...) } catch (err) { console.warn(...) }.
\* The variant has no catch: the exception ends the module.
SetErrorHandlerUncaught(throws) ==
  /\ server.pc = "created"
  /\ server' = IF throws
               THEN [server EXCEPT !.pc = "aborted", !.out = <<>>]
               ELSE [server EXCEPT !.pc = "handlerTried",
                                   !.errorHandler = "custom", !.out = <<>>]
  /\ UNCHANGED <<employees, nextId, req, resp, issued, inflight>>

SetErrorHandler(throws) ==
  /\ server.pc = "created"
  /\ server' = IF throws
               THEN [server EXCEPT
                       !.pc = "handlerTried",
                       !.out = <<Effect("console.warn",
                                        "Custom error handler could not be set")>>]
               ELSE [server EXCEPT !.pc = "handlerTried",
                                   !.errorHandler = "custom", !.out = <<>>]
  /\ UNCHANGED <<employees, nextId, req, resp, issued, inflight>>

\* fastify.register(require('./routes/employee'), { prefix: '/employees' })
Register ==
  /\ server.pc = "handlerTried"
  /\ server' = [server EXCEPT
                  !.pc = "registered",
                  !.plugins = Append(@, [plugin |-> "employeeRoutes",
                                         prefix |-> "/employees"]),
                  !.out = <<>>]
  /\ UNCHANGED <<employees, nextId, req, resp, issued, inflight>>

\* start(): await fastify.listen({ port: 3000, host: '0.0.0.0' })
Listen ==
  /\ server.pc = "registered"
  /\ server' = [server EXCEPT !.pc = "listening", !.listenCalled = TRUE,
                              !.out = <<>>]
  /\ UNCHANGED <<employees, nextId, req, resp, issued, inflight>>

\* listen resolved: console.log(...)
ListenResolved ==
  /\ server.pc = "listening"
  /\ server' = [server EXCEPT
                  !.pc = "running",
                  !.out = <<Effect("console.log",
                                   "Server is running on http://localhost:3000")>>]
  /\ UNCHANGED <<employees, nextId, req, resp, issued, inflight>>

\* listen rejected with err: fastify.log.error(err); process.exit(1). The
\* variant logs and stays.
ListenRejectedStaying(err) ==
  /\ server.pc = "listening"
  /\ server' = [server EXCEPT
                  !.pc = "running",
                  !.out = <<Effect("fastify.log.error", err)>>]
  /\ UNCHANGED <<employees, nextId, req, resp, issued, inflight>>

ListenRejected(err) ==
  /\ server.pc = "listening"
  /\ server' = [server EXCEPT
                  !.pc = "exited",
                  !.exits = Append(@, 1),
                  !.out = <<Effect("fastify.log.error", err),
                            Effect("process.exit", 1)>>]
  /\ UNCHANGED <<employees, nextId, req, resp, issued, inflight>>

ListenErrors ==
  {[message |-> "Port already in use"], [message |-> "Startup error"]}

\* The errors given to the error handler: validation lists as the validator
\* and the tests build them, and errors without a validation list.
Fields == {"id", "name", "age", "email", "salary", "department"}

NoParams == [k \in {} |-> ""]

KeywordParams ==
  {<<"minimum", [limit |-> 1]>>, <<"minimum", [limit |-> 5]>>,
   <<"maximum", [limit |-> 95]>>, <<"maximum", [limit |-> 1000]>>,
   <<"type", [type |-> "integer"]>>, <<"type", [type |-> "string"]>>,
   <<"type", [type |-> "object"]>>,
   <<"multipleOf", [multipleOf |-> 1]>>, <<"minLength", [limit |-> 1]>>,
   <<"custom", NoParams>>, <<"pattern", [pattern |-> "^[a-z]+$"]>>,
   <<"minimum", [comparison |-> ">="]>>}

FirstErrors ==
  {ValidationError(kp[1], <<f>>, kp[2]) : f \in Fields, kp \in KeywordParams}
    \cup {ValidationError("required", <<>>, [missingProperty |-> f]) : f \in Fields}
    \cup {ValidationError(kp[1], <<>>, kp[2]) : kp \in KeywordParams}
    \cup {ValidationError("type", <<"age", "years">>, [type |-> "integer"])}

SecondErrors ==
  {ValidationError("required", <<>>, [missingProperty |-> "age"]),
   ValidationError("minimum", <<"age">>, [limit |-> 5]),
   ValidationError("minLength", <<"name">>, [limit |-> 1])}

Errors ==
  {[validation |-> <<e>>] : e \in FirstErrors}
    \cup {[validation |-> <<e1, e2>>] :
            e1 \in {ValidationError("required", <<>>, [missingProperty |-> "name"]),
                    ValidationError("minimum", <<"id">>, [limit |-> 1]),
                    ValidationError("type", <<"age">>, [type |-> "integer"])},
            e2 \in SecondErrors}
    \cup {[validation |-> <<>>]}
    \cup {[message |-> "Something went wrong"],
          [message |-> "Not Found", statusCode |-> 404],
          [code |-> "FST_ERR_CTP_INVALID_JSON_BODY", statusCode |-> 400]}

\* A request fails with an error and the installed callback answers it.
HandleError(error) ==
  /\ server.pc = "running"
  /\ server.errorHandler = "custom"
  /\ req' = Request("failed", <<>>, NoBody)
  /\ resp' = ErrorHandler(error)
  /\ server' = [server EXCEPT !.out = <<Effect("fastify.log.error", error)>>]
  /\ UNCHANGED <<employees, nextId, issued, inflight>>

NextS ==
  \/ \E throws \in BOOLEAN : SetErrorHandler(throws)
  \/ Register
  \/ Listen
  \/ ListenResolved
  \/ \E err \in ListenErrors : ListenRejected(err)
  \/ \E error \in Errors : HandleError(error)

SpecS == InitS /\ [][NextS]_vars

\* The steps of the start are taken as long as one is possible.
StartStep ==
  \/ \E throws \in BOOLEAN : SetErrorHandler(throws)
  \/ Register
  \/ Listen
  \/ ListenResolved
  \/ \E err \in ListenErrors : ListenRejected(err)

FairSpecS == SpecS /\ WF_vars(StartStep)
(***************************************************************************)
(* Properties                                                              *)
(***************************************************************************)
\* What the data model of the service calls a valid field.
IsName(v) == v.t = "string" /\ v.s # <<>>
IsAge(v) == IsInteger(v) /\ 5 <= IntOf(v) /\ IntOf(v) <= 95
IsId(v) == IsInteger(v) /\ IntOf(v) >= 1

Holds(emps, id) == \E i \in 1..Len(emps) : emps[i].id = id
IdsOf(emps) == {emps[i].id : i \in 1..Len(emps)}
Created == req.op = "post" /\ resp.status = 201
AutoCreated == Created /\ req.body.id = Undefined

\* C1: no two records of the store share an id, in every reachable state.
C1_UniqueIds ==
  \A i, j \in 1..Len(employees) : i # j => employees[i].id # employees[j].id

\* C2: a create without id is assigned the value the counter had, the counter
\* is one greater after it, and the n-th id handed out since the last reset
\* (or the start) is n.
C2_AutoIdIsCounter ==
  /\ nextId = Len(issued) + 1
  /\ \A n \in 1..Len(issued) : issued[n] = Whole(n)
  /\ AutoCreated =>
       /\ issued # <<>>
       /\ resp.body.data.id = issued[Len(issued)]
       /\ resp.body.data.id = Whole(nextId - 1)
       /\ employees[Len(employees)] = resp.body.data

C2_Witness == AutoCreated /\ Len(issued) = 2 /\ Len(employees) = 3

\* C3: after a successful create, get-by-id with the returned id answers 200
\* with the very record the create returned.
C3_RoundTrip ==
  Created =>
    GetByIdReply(employees, NumToStr(resp.body.data.id.tenths))
      = Reply(200, Success("Employee retrieved successfully", resp.body.data))

\* C4: once a delete of id k has succeeded, get-by-id k answers 404 "Employee
\* not found", and keeps doing so over every step that is not a create storing
\* a record with id k.
C4_DeletedStaysGone ==
  [][\A k \in 1..MaxNextId :
       LET pid == NatToStr(k)
           deleted == /\ req'.op = "delete"
                      /\ resp'.status = 200
                      /\ ParseInt(req'.pid) = Whole(k)
           created == /\ req'.op = "post"
                      /\ resp'.status = 201
                      /\ resp'.body.data.id = Whole(k)
       IN  /\ deleted => GetByIdReply(employees', pid) = NotFound
           /\ (GetByIdReply(employees, pid) = NotFound /\ ~created)
                => GetByIdReply(employees', pid) = NotFound]_vars

\* C5: a create whose body is valid and names an id: if a record with that id
\* is in the store the answer is 409 "Employee with ID {id} already exists" and
\* nothing is stored, otherwise it is 201 and the record is appended under
\* exactly that id.
C5_ExplicitId ==
  [][(/\ req'.op = "post"
      /\ IsId(req'.body.id) /\ IsName(req'.body.name) /\ IsAge(req'.body.age))
     => IF Holds(employees, req'.body.id)
        THEN /\ resp' = Reply(409, Failure("Employee with ID "
                                           \o ToString(IntOf(req'.body.id))
                                           \o " already exists"))
             /\ employees' = employees
        ELSE /\ resp'.status = 201
             /\ resp'.body.data.id = req'.body.id
             /\ employees' = Append(employees, resp'.body.data)
             /\ nextId' = nextId]_vars

C5_Witness ==
  /\ req.op = "post" /\ resp.status = 409
  /\ resp.body.message = "Employee with ID 2 already exists"
  /\ Len(employees) = 2

\* C6: every record of the store has an integer id >= 1, a non-empty string
\* as name and an integer age in [5, 95], whatever payloads were sent.
C6_DataModel ==
  \A i \in 1..Len(employees) :
    /\ IsId(employees[i].id)
    /\ IsName(employees[i].name)
    /\ IsAge(employees[i].age)

C6_Witness ==
  /\ Created
  /\ req.body.name.t = "number" /\ req.body.age.t = "string"
  /\ Len(employees) = 2

\* C7: a successful update of id k answers with {id: k, name, age} of the
\* request body, a get-by-id k then returns that record, and the ids of the
\* store (and their number) are as before; an id in the body is not applied.
C7_UpdateReplaces ==
  [][(req'.op = "put" /\ resp'.status = 200)
     => LET body == CoerceBody(createEmployeeSchema.properties, req'.body)
            k == ParseInt(req'.pid)
            record == Employee(k, body.name, body.age)
        IN  /\ Holds(employees, k)
            /\ resp'.body.data = record
            /\ GetByIdReply(employees', req'.pid)
                 = Reply(200, Success("Employee retrieved successfully", record))
            /\ IdsOf(employees') = IdsOf(employees)
            /\ Len(employees') = Len(employees)
            /\ \A i \in 1..Len(employees) : employees'[i].id = employees[i].id]_vars

C7_Witness ==
  /\ req.op = "put" /\ resp.status = 200
  /\ req.pid = <<"1">> /\ req.body.id = Whole(2)
  /\ resp.body.data = Employee(Whole(1), NameB, Whole(95))
  /\ Len(employees) = 2

\* C8: a create with an integer age in [5, 95], a non-empty name and no id or
\* an unused valid id answers 201 and stores a record with that age.
C8_ValidAgeAccepted ==
  [][(/\ req'.op = "post"
      /\ IsAge(req'.body.age) /\ IsName(req'.body.name)
      /\ \/ req'.body.id = Undefined
         \/ IsId(req'.body.id) /\ ~Holds(employees, req'.body.id))
     => /\ resp'.status = 201
        /\ resp'.body.data.age = req'.body.age
        /\ employees' = Append(employees, resp'.body.data)]_vars

C8_Witness ==
  /\ Created /\ req.body.age = Whole(95) /\ req.body.id = Undefined
  /\ employees[Len(employees)].age = Whole(95)

\* C9: a create or update whose age is a number outside [5, 95], a decimal
\* or a string answers 400 "Age must be between 5 and 95 years" and leaves the
\* records as they were (the other fields of the body being valid).
BadAge(v) == v.t = "string" \/ (v.t = "number" /\ ~IsAge(v))

C9_BadAgeRejected ==
  [][(/\ req'.op \in {"post", "put"}
      /\ BadAge(req'.body.age) /\ IsName(req'.body.name)
      /\ (req'.body.id = Undefined \/ IsId(req'.body.id)))
     => /\ resp' = Reply(400, Failure("Age must be between 5 and 95 years"))
        /\ employees' = employees]_vars

\* The answer to a create in which only one field is as given and the others
\* are valid, in an empty store: the verdict of that field's rules alone.
Alone(field, v) ==
  PostResult(<<>>, 1, [Body(Undefined, NameA, Whole(30)) EXCEPT ![field] = v]).resp
Rejected(field, v) == Alone(field, v).status = 400
Conflict(emps, id) ==
  /\ id # Undefined
  /\ Holds(emps, Alone("id", id).body.data.id)

\* C10 as stated: when several rules are violated at once the error reported
\* is the first of: missing name, missing age, empty (invalid) name, invalid
\* age, invalid id, and only then the duplicate id.
C10_ClaimedOrder ==
  [][req'.op = "post"
     => LET b == req'.body
        IN  IF b.name = Undefined
            THEN resp' = Reply(400, Failure("name is required"))
            ELSE IF b.age = Undefined
            THEN resp' = Reply(400, Failure("age is required"))
            ELSE IF Rejected("name", b.name)
            THEN /\ resp' = Alone("name", b.name)
                 /\ b.name = Str(<<>>) => resp'.body.message = "name cannot be empty"
            ELSE IF Rejected("age", b.age)
            THEN resp' = Reply(400, Failure("Age must be between 5 and 95 years"))
            ELSE IF Rejected("id", b.id)
            THEN resp' = Alone("id", b.id)
            ELSE IF Conflict(employees, b.id)
            THEN resp'.status = 409
            ELSE resp'.status = 201]_vars

\* C10 amended: the order is missing name, missing age, invalid id, empty
\* (invalid) name, invalid age, and only then the duplicate id.
C10_ValidationOrder ==
  [][req'.op = "post"
     => LET b == req'.body
        IN  IF b.name = Undefined
            THEN resp' = Reply(400, Failure("name is required"))
            ELSE IF b.age = Undefined
            THEN resp' = Reply(400, Failure("age is required"))
            ELSE IF Rejected("id", b.id)
            THEN resp' = Alone("id", b.id)
            ELSE IF Rejected("name", b.name)
            THEN /\ resp' = Alone("name", b.name)
                 /\ b.name = Str(<<>>) => resp'.body.message = "name cannot be empty"
            ELSE IF Rejected("age", b.age)
            THEN resp' = Reply(400, Failure("Age must be between 5 and 95 years"))
            ELSE IF Conflict(employees, b.id)
            THEN resp'.status = 409
            ELSE resp'.status = 201]_vars

C10_Witness ==
  /\ req.op = "post"
  /\ req.body = Body(Whole(0), Str(<<>>), Whole(4))
  /\ resp = Reply(400, Failure("ID must be at least 1"))
  /\ employees # <<>>

\* C11 as stated: a create with a valid name and age whose id is 0 or
\* negative answers 400 "ID must be at least 1", and one whose id is a
\* positive decimal answers 400 "id must be a whole number"; nothing is
\* stored and the counter stays.
C11_DecimalIdMessage ==
  [][(/\ req'.op = "post"
      /\ IsName(req'.body.name) /\ IsAge(req'.body.age)
      /\ req'.body.id.t = "number")
     => /\ req'.body.id.tenths <= 0
             => /\ resp' = Reply(400, Failure("ID must be at least 1"))
                /\ UNCHANGED <<employees, nextId>>
        /\ (req'.body.id.tenths > 0 /\ ~IsInteger(req'.body.id))
             => /\ resp' = Reply(400, Failure("id must be a whole number"))
                /\ UNCHANGED <<employees, nextId>>]_vars

\* C11: a create with a valid name and age whose id is a number below 1
\* (0, negative, or a decimal such as 0.5) answers 400 "ID must be at least
\* 1", and one whose id is a decimal above 1 (2.5) answers 400 "id must be a
\* whole number"; nothing is stored and the counter stays.
C11_BadIdRejected ==
  [][(/\ req'.op = "post"
      /\ IsName(req'.body.name) /\ IsAge(req'.body.age)
      /\ req'.body.id.t = "number")
     => /\ req'.body.id.tenths < 10
             => /\ resp' = Reply(400, Failure("ID must be at least 1"))
                /\ UNCHANGED <<employees, nextId>>
        /\ (req'.body.id.tenths >= 10 /\ ~IsInteger(req'.body.id))
             => /\ resp' = Reply(400, Failure("id must be a whole number"))
                /\ UNCHANGED <<employees, nextId>>]_vars

C11_Witness ==
  /\ req.op = "post" /\ req.body = Body(Dec(2, 5), NameA, Whole(30))
  /\ resp = Reply(400, Failure("id must be a whole number"))
  /\ Len(employees) = 2 /\ nextId = 2

\* C12: get-by-id and delete with any path id, and update with a valid body,
\* answer 400 "Invalid ID format. ID must be a number." when the path id is
\* not made of digits only; with a path id of digits only no request gets
\* that answer.
DigitsOnly(pid) ==
  /\ pid # <<>>
  /\ \A i \in 1..Len(pid) :
       pid[i] \in {"0", "1", "2", "3", "4", "5", "6", "7", "8", "9"}
ValidBody(b) ==
  IsName(b.name) /\ IsAge(b.age) /\ (b.id = Undefined \/ IsId(b.id))

C12_IdFormat ==
  req.op \in {"get", "delete", "put"}
    => /\ (~DigitsOnly(req.pid) /\ (req.op = "put" => ValidBody(req.body)))
            => resp = Reply(400, Failure("Invalid ID format. ID must be a number."))
       /\ DigitsOnly(req.pid)
            => resp.body.message # "Invalid ID format. ID must be a number."

C12_Witness ==
  /\ req.op = "delete" /\ req.pid = <<"1", ".", "5">>
  /\ resp.status = 400
  /\ Len(employees) = 2

\* C13: get-by-id, update with a valid body and delete, with a path id of
\* digits for which the store holds no record, answer 404 "Employee not
\* found" and leave the records as they were.
C13_NotFound ==
  [][(/\ \/ req'.op \in {"get", "delete"}
         \/ req'.op = "put" /\ ValidBody(req'.body)
      /\ DigitsOnly(req'.pid)
      /\ ~Holds(employees, Whole(DigitsVal(req'.pid))))
     => /\ resp' = Reply(404, Failure("Employee not found"))
        /\ employees' = employees]_vars

C13_Witness ==
  /\ req.op = "put" /\ req.pid = <<"0", "1">>
  /\ resp = Reply(404, Failure("Employee not found"))
  /\ Len(employees) = 2

\* C14: reset leaves the store empty and the counter at 1, whatever the
\* state before; a list that follows it returns no record and count 0, and a
\* create without id that follows it is assigned id 1.
C14_Reset ==
  [][/\ req'.op = "reset" => employees' = <<>> /\ nextId' = 1
     /\ (req.op = "reset" /\ req'.op = "list")
          => resp'.body.data = <<>> /\ resp'.body.count = 0
     /\ (req.op = "reset" /\ req'.op = "post" /\ req'.body.id = Undefined
         /\ resp'.status = 201)
          => /\ resp'.body.data.id = Whole(1)
             /\ employees' = <<resp'.body.data>>]_vars

C14_Witness ==
  /\ req.op = "reset"
  /\ employees = <<>> /\ nextId = 1

\* C15: list returns the stored records in the order of the store with
\* count equal to their number; a create appends its record at the end, an
\* update replaces one record in place, a delete removes one record and
\* keeps the order of the rest, and a failed request changes nothing.
RemoveAt(emps, i) ==
  [j \in 1..(Len(emps) - 1) |-> IF j < i THEN emps[j] ELSE emps[j + 1]]

C15_InsertionOrder ==
  [][/\ req'.op = "list"
          => /\ resp'.body.data = employees
             /\ resp'.body.count = Len(resp'.body.data)
             /\ employees' = employees
     /\ (req'.op = "post" /\ resp'.status = 201)
          => employees' = employees \o <<resp'.body.data>>
     /\ (req'.op = "put" /\ resp'.status = 200)
          => \E i \in 1..Len(employees) :
               employees' = [employees EXCEPT ![i] = resp'.body.data]
     /\ (req'.op = "delete" /\ resp'.status = 200)
          => \E i \in 1..Len(employees) : employees' = RemoveAt(employees, i)
     /\ (req'.op \in {"get", "post", "put", "delete"} /\ resp'.status >= 400)
          => employees' = employees]_vars

C15_Witness ==
  /\ req.op = "list"
  /\ Len(resp.body.data) = 3 /\ resp.body.count = 3
  /\ resp.body.data[1].id = Whole(2) /\ resp.body.data[3].id = Whole(1)

\* C16: the counter grows only in a successful create without id, and then
\* by one; every other request leaves it as it was.
C16_CounterFrame ==
  [][/\ nextId' > nextId
          => /\ req'.op = "post" /\ req'.body.id = Undefined
             /\ resp'.status = 201
             /\ nextId' = nextId + 1
     /\ (\/ req'.op \in {"list", "get", "put", "delete"}
         \/ (req'.op = "post"
             /\ (req'.body.id # Undefined \/ resp'.status # 201)))
          => nextId' = nextId]_vars

C16_Witness ==
  /\ req.op = "post" /\ req.body.id = Whole(2) /\ resp.status = 201
  /\ nextId = 2 /\ Len(employees) = 2

\* C17: a successful delete returns the record as it was stored, removes
\* exactly that one record, lowers the count of list by one and keeps every
\* other record and their order.
C17_DeleteFrame ==
  [][(req'.op = "delete" /\ resp'.status = 200)
     => \E i \in 1..Len(employees) :
          /\ employees[i] = resp'.body.data
          /\ employees[i].id = Whole(DigitsVal(req'.pid))
          /\ Len(employees') = Len(employees) - 1
          /\ \A j \in 1..Len(employees') :
               employees'[j] = IF j < i THEN employees[j] ELSE employees[j + 1]
          /\ GetAllReply(employees').body.count
               = GetAllReply(employees).body.count - 1]_vars

C17_Witness ==
  /\ req.op = "delete" /\ resp.status = 200
  /\ resp.body.data.id = Whole(1)
  /\ Len(employees) = 2 /\ employees[1].id = Whole(2)

C20_HealthCheck ==
  req.op = "root"
    => resp = Reply(200, [message |-> "Fastify Employee API is running!"])

\* C18: with several requests in flight, the store, the counter and every
\* response are those of running the served requests one at a time in the
\* order in which they were served; creates without id get pairwise distinct
\* ids and their records are stored, a deleted record is gone, and the
\* record of an update is stored unless a later delete removed it.
Done == {c \in Clients : inflight[c].phase = "done"}

RECURSIVE OneAtATime(_, _)
OneAtATime(k, st) ==
  IF k > Cardinality(Done) THEN st
  ELSE LET c == CHOOSE d \in Done : inflight[d].order = k
           r == Handle(inflight[c].req, st.employees, st.nextId)
       IN  OneAtATime(k + 1,
                      [employees |-> r.employees, nextId |-> r.nextId,
                       resps |-> [st.resps EXCEPT ![c] = r.resp]])

AutoCreate(c) ==
  /\ c \in Done /\ inflight[c].req.op = "post"
  /\ inflight[c].req.body.id = Undefined /\ inflight[c].resp.status = 201
Succeeded(c, op) ==
  c \in Done /\ inflight[c].req.op = op /\ inflight[c].resp.status = 200

C18_Serializable ==
  LET serial == OneAtATime(1, [employees |-> Store0.employees,
                               nextId |-> Store0.nextId,
                               resps |-> [c \in Clients |-> Idle.resp]])
  IN  /\ employees = serial.employees
      /\ nextId = serial.nextId
      /\ \A c \in Done : inflight[c].resp = serial.resps[c]
      /\ \A c, d \in Clients :
           (c # d /\ AutoCreate(c) /\ AutoCreate(d))
             => inflight[c].resp.body.data.id # inflight[d].resp.body.data.id
      /\ \A c \in Clients :
           AutoCreate(c)
             => \E i \in 1..Len(employees) : employees[i] = inflight[c].resp.body.data
      /\ \A c \in Clients :
           Succeeded(c, "delete") => ~Holds(employees, inflight[c].resp.body.data.id)
      /\ \A c \in Clients :
           (Succeeded(c, "put")
            /\ ~\E d \in Clients :
                  Succeeded(d, "delete") /\ inflight[d].order > inflight[c].order)
             => \E i \in 1..Len(employees) : employees[i] = inflight[c].resp.body.data

C18_Witness ==
  /\ Done = Clients
  /\ \A c \in Clients : inflight[c].overlapped
  /\ \E c, d \in Clients :
       /\ c # d /\ AutoCreate(c) /\ AutoCreate(d)
       /\ inflight[c].resp.body.data.id = Whole(2)
       /\ inflight[d].resp.body.data.id = Whole(3)
  /\ nextId >= 4

\* C21: the error handler logs the error it is given, answers an error
\* without validation list with 500 and {success: false, message: "Internal
\* server error"}, and answers an error with a validation list with 400,
\* with message "Validation failed" when the list is empty.
C21_ErrorStatus ==
  [][req'.op = "failed"
     => /\ server'.out # <<>>
        /\ server'.out[1].call = "fastify.log.error"
        /\ LET error == server'.out[1].arg
           IN  /\ "validation" \notin DOMAIN error
                    => resp' = Reply(500, [success |-> FALSE,
                                           message |-> "Internal server error"])
               /\ "validation" \in DOMAIN error
                    => /\ resp'.status = 400
                       /\ resp'.body.success = FALSE
                       /\ error.validation = <<>>
                            => resp'.body.message = "Validation failed"]_vars

C21_Witness ==
  /\ req.op = "failed"
  /\ server.out = <<Effect("fastify.log.error", [validation |-> <<>>])>>
  /\ resp = Reply(400, [success |-> FALSE, message |-> "Validation failed"])

C23_StartUp ==
  [][/\ (server'.listenCalled /\ ~server.listenCalled)
          => \E i \in 1..Len(server.plugins) :
               server.plugins[i] = [plugin |-> "employeeRoutes",
                                    prefix |-> "/employees"]
     /\ (server.pc = "listening" /\ server'.pc # "listening")
          => \/ /\ server'.pc = "running"
                /\ server'.out
                     = <<[call |-> "console.log",
                          arg |-> "Server is running on http://localhost:3000"]>>
                /\ server'.exits = <<>>
             \/ /\ server'.pc = "exited"
                /\ Len(server'.out) = 2
                /\ server'.out[1].call = "fastify.log.error"
                /\ server'.out[1].arg \in ListenErrors
                /\ server'.out[2] = [call |-> "process.exit", arg |-> 1]
                /\ server'.exits = <<1>>
     /\ server.pc = "running"
          => server'.pc = "running" /\ server'.exits = <<>>]_vars

C23_Witness ==
  /\ server.pc = "exited" /\ server.exits = <<1>>
  /\ server.out[1] = Effect("fastify.log.error", [message |-> "Port already in use"])
  /\ Len(server.plugins) = 1

\* C24: when setErrorHandler throws, the warning "Custom error handler could
\* not be set" is written and the start goes on: the employee routes are
\* registered and listen is called.
C24_HandlerFailure ==
  /\ [][(server.pc = "created" /\ server'.pc # "created"
         /\ server'.errorHandler # "custom")
        => /\ server'.pc = "handlerTried"
           /\ server'.out = <<[call |-> "console.warn",
                               arg |-> "Custom error handler could not be set"]>>]_vars
  /\ (server.pc # "created" /\ server.errorHandler # "custom")
       ~> (server.listenCalled /\ Len(server.plugins) = 1)

C24_Witness ==
  /\ server.errorHandler = "default"
  /\ server.listenCalled
  /\ server.plugins = <<[plugin |-> "employeeRoutes", prefix |-> "/employees"]>>

\* C25: the ids given to creates without id since the last reset are
\* strictly increasing: each is greater than all given before it, also when
\* the record that held an earlier one is gone.
C25_AutoIdsIncrease ==
  /\ \A m, n \in 1..Len(issued) : m < n => IntOf(issued[m]) < IntOf(issued[n])
  /\ \A n \in 1..Len(issued) : IntOf(issued[n]) < nextId

C25_Witness ==
  /\ AutoCreated /\ resp.body.data.id = Whole(2)
  /\ issued = <<Whole(1), Whole(2)>>
  /\ ~Holds(employees, Whole(1))

\* C26: a successful update of id k keeps the number of records and their
\* order, and leaves every record but the updated one as it was.
C26_UpdateFrame ==
  [][(req'.op = "put" /\ resp'.status = 200)
     => /\ Len(employees') = Len(employees)
        /\ \E i \in 1..Len(employees) :
             /\ employees[i].id = Whole(DigitsVal(req'.pid))
             /\ employees'[i].id = employees[i].id
             /\ \A j \in 1..Len(employees) : j # i => employees'[j] = employees[j]]_vars

C26_Witness ==
  /\ req.op = "put" /\ resp.status = 200 /\ req.pid = <<"1">>
  /\ Len(employees) = 3
  /\ employees[1].id = Whole(1) /\ employees[1] = resp.body.data
  /\ employees[2].id = Whole(2)

\* C27: the records change only in a successful create, update or delete
\* and in reset; list, get-by-id and every request answered 400, 404 or 409
\* leave the sequence of records as it was.
C27_StoreFrame ==
  [][/\ employees' # employees
          => \/ req'.op = "reset"
             \/ req'.op = "post" /\ resp'.status = 201
             \/ req'.op = "put" /\ resp'.status = 200
             \/ req'.op = "delete" /\ resp'.status = 200
     /\ (req'.op \in {"list", "get"}
         \/ (req'.op # "reset" /\ resp'.status \in {400, 404, 409}))
          => employees' = employees]_vars

C27_Witness ==
  /\ req.op = "post" /\ resp.status = 409
  /\ Len(employees) = 2 /\ employees[1].id = req.body.id

BadNameOrAge(b) ==
  \/ b.name = Undefined \/ b.age = Undefined
  \/ b.name = Str(<<>>)
  \/ (b.age.t = "number" /\ ~IsAge(b.age))
ValidationMessages ==
  {"name is required", "age is required", "name cannot be empty",
   "Age must be between 5 and 95 years", "ID must be at least 1",
   "id must be a whole number", "id must be a number", "name must be a string"}

C29_BodyBeforePath ==
  req.op = "put"
    => /\ BadNameOrAge(req.body)
            => resp.status = 400 /\ resp.body.message \in ValidationMessages
       /\ resp.body.message = "Invalid ID format. ID must be a number."
            => /\ Validate(createEmployeeSchema, req.body) = <<>>
               /\ ~BadNameOrAge(req.body)
               /\ ~DigitsOnly(req.pid)
       /\ resp.status = 404
            => /\ Validate(createEmployeeSchema, req.body) = <<>>
               /\ ~BadNameOrAge(req.body)
               /\ DigitsOnly(req.pid)
       /\ (ValidBody(req.body) /\ ~DigitsOnly(req.pid))
            => resp.status = 400
               /\ resp.body.message = "Invalid ID format. ID must be a number."

C29_Witness ==
  /\ req.op = "put" /\ req.pid = <<"a", "b", "c">>
  /\ req.body.name = Undefined
  /\ resp = Reply(400, [success |-> FALSE, message |-> "name is required"])

\* C30: a get-by-id, update or delete that succeeds for id k acts on the
\* first record of the list whose id is k: that record is the one returned,
\* replaced or removed, and no other record changes.
First(emps, k) ==
  CHOOSE i \in 1..Len(emps) :
    emps[i].id = k /\ \A j \in 1..Len(emps) : emps[j].id = k => i <= j

C30_FirstMatch ==
  [][(req'.op \in {"get", "put", "delete"} /\ resp'.status = 200)
     => LET k == Whole(DigitsVal(req'.pid))
            i == First(employees, k)
        IN  /\ Holds(employees, k)
            /\ req'.op = "get"
                 => resp'.body.data = employees[i] /\ employees' = employees
            /\ req'.op = "put"
                 => /\ employees' = [employees EXCEPT ![i] = resp'.body.data]
                    /\ resp'.body.data.id = k
            /\ req'.op = "delete"
                 => /\ resp'.body.data = employees[i]
                    /\ employees' = RemoveAt(employees, i)]_vars

C30_Witness ==
  /\ req.op = "delete" /\ resp.status = 200
  /\ Holds(employees, resp.body.data.id)
  /\ Len(employees) = 2
====
